---- MODULE Spec2Model ----
(***************************************************************************)
(* Model of MethodEditor (src/MethodEditor_Main.py): the file splitter     *)
(* split_to_multiple_files, the sequence generator make_funcs and the      *)
(* template segmenter get_basefile_lines, each as a state machine that     *)
(* executes the loop of the Python function one iteration per step.        *)
(*                                                                         *)
(* Numbers: Parameters.parse_value reads every numeric field as int or     *)
(* Decimal, so all arithmetic of make_funcs is exact; voltages and times   *)
(* are modelled as integers (a fixed decimal scale).                       *)
(***************************************************************************)
EXTENDS Integers, Sequences, FiniteSets, TLC

\* ---------------------------------------------------------------- bounds
MaxFuncs == 6
MaxPerFile == 3
MaxSpecs == 2
MaxV == 2
MaxStep == 2
MaxCollect == 2
MaxDelay == 1
MaxLines == 5

\* ----------------------------------------------------------------- state
VARIABLES
  \* split_to_multiple_files
  func_list, num_funcs_per_file, sp_pc, sp_i,
  func_counter, output_lists, current_output_list,
  \* make_funcs
  param_obj_list, mf_pc, mf_j, funcs, current_time, current_voltage,
  \* get_basefile_lines
  base_lines, msms_bool, seg_pc, seg_i, seg, placed, seg_result,
  \* gen_function_lines
  gf_lines, gf_func, gf_index, gf_optic, gf_pc, gf_i, gf_out,
  \* make_method_file
  mm_funcs, mm_param, mm_base, mm_pc, mm_k, mm_parts, mm_out, mm_name,
  \* main_method_prep
  mp_params, mp_base, mp_pc, mp_i, mp_groups, mp_g, sample_index,
  sample_list_strings, mp_written, sample_list,
  \* the output directory: file name -> lines
  disk

spVars == <<func_list, num_funcs_per_file, sp_pc, sp_i,
            func_counter, output_lists, current_output_list>>
mfVars == <<param_obj_list, mf_pc, mf_j, funcs, current_time, current_voltage>>
segVars == <<base_lines, msms_bool, seg_pc, seg_i, seg, placed, seg_result>>
gfVars == <<gf_lines, gf_func, gf_index, gf_optic, gf_pc, gf_i, gf_out>>
mmVars == <<mm_funcs, mm_param, mm_base, mm_pc, mm_k, mm_parts, mm_out, mm_name>>
mpVars == <<mp_params, mp_base, mp_pc, mp_i, mp_groups, mp_g, sample_index,
            sample_list_strings, mp_written, sample_list>>
outVars == <<gfVars, mmVars, mpVars, disk>>
vars == <<spVars, mfVars, segVars, outVars>>

\* ------------------------------------------------------------ helpers
SeqsUpTo(S, n) == UNION { [1..k -> S] : k \in 0..n }
NonEmptySeqsUpTo(S, n) == UNION { [1..k -> S] : k \in 1..n }

RECURSIVE Flatten(_)
Flatten(ss) == IF ss = <<>> THEN <<>> ELSE Head(ss) \o Flatten(Tail(ss))

\* The dataclass Function: one record per acquisition segment.
Function(msms, mz, lo, hi, v, scan, t0, t1) ==
  [msms_mode |-> msms, select_mz |-> mz, ms_start |-> lo, ms_end |-> hi,
   cv |-> v, scantime |-> scan, start_time |-> t0, stop_time |-> t1]

\* Components that are not running keep these values.
IdleSplit ==
  /\ func_list = <<>> /\ num_funcs_per_file = 0 /\ sp_pc = "idle" /\ sp_i = 0
  /\ func_counter = 0 /\ output_lists = <<>> /\ current_output_list = <<>>
IdleFuncs ==
  /\ param_obj_list = <<>> /\ mf_pc = "idle" /\ mf_j = 0 /\ funcs = <<>>
  /\ current_time = 0 /\ current_voltage = 0
IdleSeg ==
  /\ base_lines = <<>> /\ msms_bool = FALSE /\ seg_pc = "idle" /\ seg_i = 0
  /\ seg = [header |-> TRUE, footer |-> FALSE, header_lines |-> <<>>,
            function_lines |-> <<>>, footer_lines |-> <<>>]
  /\ placed = <<>> /\ seg_result = "none"
IdleRewrite ==
  /\ gf_lines = <<>> /\ gf_func = <<>> /\ gf_index = 0 /\ gf_optic = ""
  /\ gf_pc = "idle" /\ gf_i = 0 /\ gf_out = <<>>
IdleAssemble ==
  /\ mm_funcs = <<>> /\ mm_param = <<>> /\ mm_base = <<>> /\ mm_pc = "idle"
  /\ mm_k = 0 /\ mm_parts = <<>> /\ mm_out = <<>> /\ mm_name = <<>>
IdleMain ==
  /\ mp_params = <<>> /\ mp_base = <<>> /\ mp_pc = "idle" /\ mp_i = 0
  /\ mp_groups = <<>> /\ mp_g = 0 /\ sample_index = 0
  /\ sample_list_strings = <<>> /\ mp_written = <<>> /\ sample_list = <<>>
IdleOut == IdleRewrite /\ IdleAssemble /\ IdleMain /\ disk = <<>>

\* ======================================================================
\* split_to_multiple_files(func_list, num_funcs_per_file)
\* ======================================================================
\* Records handed to the splitter: two distinguishable functions.
SplitFuncs == { Function(TRUE, 500, 100, 2000, v, 1, v, v + 1) : v \in 0..1 }

InitSplit ==
  /\ func_list \in NonEmptySeqsUpTo(SplitFuncs, MaxFuncs)
  /\ num_funcs_per_file \in 0..MaxPerFile
  /\ sp_pc = "loop" /\ sp_i = 0
  /\ func_counter = 1 /\ output_lists = <<>> /\ current_output_list = <<>>
  /\ IdleFuncs /\ IdleSeg /\ IdleOut

\* Faulty variant: the record that opens a new group is dropped.
SplitStepDropsOpener(st, func, n) ==
  IF st.func_counter > n
  THEN [func_counter |-> 1,
        output_lists |-> Append(st.output_lists, st.current_output_list),
        current_output_list |-> <<>>]
  ELSE [func_counter |-> st.func_counter + 1,
        output_lists |-> st.output_lists,
        current_output_list |-> Append(st.current_output_list, func)]

\* One iteration of `for func in func_list`.
SplitStep(st, func, n) ==
  IF st.func_counter > n
  THEN [func_counter |-> 1,
        output_lists |-> Append(st.output_lists, st.current_output_list),
        current_output_list |-> <<func>>]
  ELSE [func_counter |-> st.func_counter + 1,
        output_lists |-> st.output_lists,
        current_output_list |-> Append(st.current_output_list, func)]

Split_Iter ==
  /\ sp_pc = "loop" /\ sp_i < Len(func_list)
  /\ LET st == SplitStep([func_counter |-> func_counter,
                          output_lists |-> output_lists,
                          current_output_list |-> current_output_list],
                         func_list[sp_i + 1], num_funcs_per_file)
     IN /\ func_counter' = st.func_counter
        /\ output_lists' = st.output_lists
        /\ current_output_list' = st.current_output_list
  /\ sp_i' = sp_i + 1
  /\ UNCHANGED <<func_list, num_funcs_per_file, sp_pc, mfVars, segVars, outVars>>

\* `output_lists.append(current_output_list); return output_lists`
Split_Return ==
  /\ sp_pc = "loop" /\ sp_i = Len(func_list)
  /\ output_lists' = Append(output_lists, current_output_list)
  /\ sp_pc' = "done"
  /\ UNCHANGED <<func_list, num_funcs_per_file, sp_i, func_counter,
                 current_output_list, mfVars, segVars, outVars>>

NextSplit == Split_Iter \/ Split_Return
SpecSplit == InitSplit /\ [][NextSplit]_vars

\* C1: for every limit N >= 1 every returned group except the last holds
\* exactly N records and the last holds between 1 and N records.
C1_GroupSizes ==
  (sp_pc = "done" /\ num_funcs_per_file >= 1) =>
    /\ \A g \in 1..(Len(output_lists) - 1) :
         Len(output_lists[g]) = num_funcs_per_file
    /\ Len(output_lists[Len(output_lists)]) >= 1
    /\ Len(output_lists[Len(output_lists)]) <= num_funcs_per_file

\* C2: for every limit N >= 1 the groups returned, concatenated in order,
\* are exactly the input list (nothing dropped, duplicated or reordered).
C2_ConcatPreserved ==
  (sp_pc = "done" /\ num_funcs_per_file >= 1) =>
    Flatten(output_lists) = func_list

C2_Witness ==
  /\ sp_pc = "done" /\ num_funcs_per_file = 2
  /\ Len(func_list) = 5 /\ Len(output_lists) = 2
  /\ func_list[1] # func_list[2]

\* ======================================================================
\* make_funcs(param_obj_list)
\* ======================================================================
\* Parameters.MethodParams, the fields make_funcs reads.
MethodParams(combine, msms, v0, v1, step, collect, delay) ==
  [combine_all_bool |-> combine, msms_bool |-> msms,
   mz |-> 500, ms_start |-> 100, ms_end |-> 2000, scan_time |-> 1,
   cv_start |-> v0, cv_end |-> v1, cv_step |-> step,
   collect_time |-> collect, delay_time_init |-> delay]

\* One analysis: any ramp (also inverted bounds, also a step <= 0).
SweepSpecs ==
  { MethodParams(FALSE, TRUE, v0, v1, step, collect, delay) :
      v0 \in 0..MaxV, v1 \in 0..MaxV, step \in (0 - 1)..MaxStep,
      collect \in 0..MaxCollect, delay \in 0..MaxDelay }

\* Analyses of one combined method: short ramps that end, one of them empty.
CombinedSpecs ==
  { MethodParams(TRUE, msms, v0, v1, 1, collect, delay) :
      msms \in {TRUE}, v0 \in 0..1, v1 \in 0..1,
      collect \in 1..MaxCollect, delay \in 0..MaxDelay }

\* The ramp loop of a step <= 0 never ends: the model stops it here.
MaxLoop == MaxSpecs * (MaxV + 2)

MakeFuncsEntry ==
  /\ mf_pc = "for" /\ mf_j = 0 /\ funcs = <<>>
  /\ current_time = 0 /\ current_voltage = 0

InitFuncs ==
  /\ param_obj_list \in [1..1 -> SweepSpecs]
  /\ MakeFuncsEntry
  /\ IdleSplit /\ IdleSeg /\ IdleOut

InitCombined ==
  /\ param_obj_list \in UNION { [1..n -> CombinedSpecs] : n \in 2..MaxSpecs }
  /\ MakeFuncsEntry
  /\ IdleSplit /\ IdleSeg /\ IdleOut

\* The analysis the loop body is working on.
CurParam == param_obj_list[mf_j]

\* Faulty variant: the delay record does not advance the clock.
ClockAfterDelayStuck(t, p) == t

\* `current_time += param_obj.delay_time_init`
ClockAfterDelay(t, p) == t + p.delay_time_init

\* Faulty variant: the ramp stops before the step that lands on cv_end.
RampContinuesStrict(v, p) == v < p.cv_end

\* `while current_voltage <= param_obj.cv_end`
RampContinues(v, p) == v <= p.cv_end

\* Faulty variant: the initial-delay Function ends where it starts.
DelayFuncEndsAtStart(p, t) ==
  Function(p.msms_bool, p.mz, p.ms_start, p.ms_end, p.cv_start, p.scan_time,
           t, t)

\* The initial-delay Function.
DelayFunc(p, t) ==
  Function(p.msms_bool, p.mz, p.ms_start, p.ms_end, p.cv_start, p.scan_time,
           t, t + p.delay_time_init)

\* The Function of one ramp step.
RampFunc(p, t, v) ==
  Function(p.msms_bool, p.mz, p.ms_start, p.ms_end, v, p.scan_time,
           t, t + p.collect_time)

\* Faulty variant: the clock restarts at 0 for every analysis.
MF_NextSpecResetsClock ==
  /\ mf_pc = "for" /\ mf_j < Len(param_obj_list)
  /\ mf_j' = mf_j + 1
  /\ current_voltage' = param_obj_list[mf_j + 1].cv_start
  /\ current_time' = 0
  /\ mf_pc' = "delay"
  /\ UNCHANGED <<param_obj_list, funcs, spVars, segVars, outVars>>

\* `for param_obj in param_obj_list: current_voltage = param_obj.cv_start`
MF_NextSpec ==
  /\ mf_pc = "for" /\ mf_j < Len(param_obj_list)
  /\ mf_j' = mf_j + 1
  /\ current_voltage' = param_obj_list[mf_j + 1].cv_start
  /\ mf_pc' = "delay"
  /\ UNCHANGED <<param_obj_list, funcs, current_time, spVars, segVars, outVars>>

\* `if param_obj.delay_time_init > 0: ...`
MF_Delay ==
  /\ mf_pc = "delay"
  /\ IF CurParam.delay_time_init > 0
     THEN /\ funcs' = Append(funcs, DelayFunc(CurParam, current_time))
          /\ current_time' = ClockAfterDelay(current_time, CurParam)
     ELSE UNCHANGED <<funcs, current_time>>
  /\ mf_pc' = "while"
  /\ UNCHANGED <<param_obj_list, mf_j, current_voltage, spVars, segVars, outVars>>

\* One iteration of the ramp loop.
MF_Ramp ==
  /\ mf_pc = "while" /\ RampContinues(current_voltage, CurParam)
  /\ Len(funcs) < MaxLoop
  /\ funcs' = Append(funcs, RampFunc(CurParam, current_time, current_voltage))
  /\ current_time' = current_time + CurParam.collect_time
  /\ current_voltage' = current_voltage + CurParam.cv_step
  /\ UNCHANGED <<param_obj_list, mf_pc, mf_j, spVars, segVars, outVars>>

\* The loop condition is false: on to the next analysis.
MF_RampExit ==
  /\ mf_pc = "while" /\ ~RampContinues(current_voltage, CurParam)
  /\ mf_pc' = "for"
  /\ UNCHANGED <<param_obj_list, mf_j, funcs, current_time, current_voltage,
                 spVars, segVars, outVars>>

\* `return funcs`
MF_Return ==
  /\ mf_pc = "for" /\ mf_j = Len(param_obj_list)
  /\ mf_pc' = "done"
  /\ UNCHANGED <<param_obj_list, mf_j, funcs, current_time, current_voltage,
                 spVars, segVars, outVars>>

NextFuncs == MF_NextSpec \/ MF_Delay \/ MF_Ramp \/ MF_RampExit \/ MF_Return
SpecFuncs == InitFuncs /\ [][NextFuncs]_vars
SpecCombined == InitCombined /\ [][NextFuncs]_vars

\* ------------------------------------------------ properties of make_funcs
ValidSweep(p) ==
  p.cv_start <= p.cv_end /\ p.cv_step > 0 /\ p.delay_time_init >= 0

TimeContiguous(fs) ==
  \A i \in 1..(Len(fs) - 1) : fs[i].stop_time = fs[i + 1].start_time

VoltageNonDecreasing(fs) ==
  \A i \in 1..(Len(fs) - 1) : fs[i].cv <= fs[i + 1].cv

\* C3: for a single valid sweep the returned sequence is non-empty, starts
\* at time 0, is time-contiguous and its voltages never decrease.
C3_ContiguousMonotone ==
  (mf_pc = "done" /\ Len(param_obj_list) = 1 /\ ValidSweep(param_obj_list[1])) =>
    /\ Len(funcs) >= 1
    /\ funcs[1].start_time = 0
    /\ TimeContiguous(funcs)
    /\ VoltageNonDecreasing(funcs)

C3_Witness ==
  /\ mf_pc = "done" /\ Len(param_obj_list) = 1 /\ ValidSweep(param_obj_list[1])
  /\ param_obj_list[1].delay_time_init > 0
  /\ param_obj_list[1].collect_time > 0
  /\ Len(funcs) = 4

\* Number of ramp steps k >= 0 with cv_start + k*cv_step <= cv_end (step > 0).
RampCount(p) ==
  IF p.cv_start > p.cv_end THEN 0
  ELSE ((p.cv_end - p.cv_start) \div p.cv_step) + 1

ExpectedDelay(p, t0) ==
  IF p.delay_time_init > 0
  THEN << Function(p.msms_bool, p.mz, p.ms_start, p.ms_end, p.cv_start,
                   p.scan_time, t0, t0 + p.delay_time_init) >>
  ELSE << >>

ExpectedRamp(p, t0) ==
  [ i \in 1..RampCount(p) |->
      Function(p.msms_bool, p.mz, p.ms_start, p.ms_end,
               p.cv_start + (i - 1) * p.cv_step, p.scan_time,
               t0 + (i - 1) * p.collect_time, t0 + i * p.collect_time) ]

\* C4: for a single sweep with step > 0 the result is the delay record
\* [0, delay) at cv_start exactly when delay > 0, then one ramp record per
\* k >= 0 with cv_start + k*step <= cv_end, at cv_start + k*step, spanning
\* [delay + k*collect_time, delay + (k+1)*collect_time); nothing else.
C4_ExactRecords ==
  (mf_pc = "done" /\ Len(param_obj_list) = 1 /\ param_obj_list[1].cv_step > 0) =>
    funcs = ExpectedDelay(param_obj_list[1], 0)
              \o ExpectedRamp(param_obj_list[1], param_obj_list[1].delay_time_init)

C4_Witness ==
  /\ mf_pc = "done" /\ Len(param_obj_list) = 1
  /\ param_obj_list[1].cv_step = 2
  /\ param_obj_list[1].cv_start = 0 /\ param_obj_list[1].cv_end = 2
  /\ param_obj_list[1].delay_time_init > 0
  /\ Len(funcs) = 3 /\ funcs[3].cv = 2

\* C5: when the step is non-positive the ramp loop is not entered: no
\* iteration of the loop appends a record for a sweep with cv_step <= 0.
C5_NoRampWhenStepNonPositive ==
  [][(mf_pc = "while" /\ CurParam.cv_step <= 0) => funcs' = funcs]_vars

\* Records that analysis p contributes (step > 0, or an empty ramp).
SpecCount(p) == (IF p.delay_time_init > 0 THEN 1 ELSE 0) + RampCount(p)

RECURSIVE Offset(_, _)
Offset(ps, j) == IF j <= 1 THEN 0 ELSE Offset(ps, j - 1) + SpecCount(ps[j - 1])

\* C6: in combined mode the clock is never reset: the first record of each
\* analysis starts where the previous record stopped, the whole sequence is
\* time-contiguous from 0, and each analysis' delay record and first ramp
\* record are at that analysis' own cv_start.
C6_CombinedClockContinues ==
  (mf_pc = "done" /\ Len(param_obj_list) >= 2) =>
    /\ Len(funcs) = Offset(param_obj_list, Len(param_obj_list) + 1)
    /\ TimeContiguous(funcs)
    /\ funcs # << >> => funcs[1].start_time = 0
    /\ \A j \in 1..Len(param_obj_list) :
         LET p == param_obj_list[j]
             first == Offset(param_obj_list, j) + 1
             ramp == first + (IF p.delay_time_init > 0 THEN 1 ELSE 0)
         IN /\ SpecCount(p) > 0 =>
                 /\ funcs[first].cv = p.cv_start
                 /\ first > 1 =>
                      funcs[first].start_time = funcs[first - 1].stop_time
            /\ RampCount(p) > 0 => funcs[ramp].cv = p.cv_start

C6_Witness ==
  /\ mf_pc = "done" /\ Len(param_obj_list) = 2
  /\ param_obj_list[1].cv_start = 0 /\ param_obj_list[1].cv_end = 1
  /\ param_obj_list[2].cv_start = 1 /\ param_obj_list[2].cv_end = 1
  /\ param_obj_list[2].delay_time_init > 0
  /\ Len(funcs) = 4 /\ funcs[3].start_time > 0 /\ funcs[3].cv = 1

\* ======================================================================
\* get_basefile_lines(param_obj)
\* ======================================================================
\* Lines of a base file (line terminators left out; BlankLine is '\n').
BlankLine == ""
TemplateLines ==
  { BlankLine, "Header,1", "FUNCTION 1", "ScansSum,1", "FastDDAMSMSScanTime,1" }

\* str.lower() on one character (the letters base files and markers use).
LowerChar(c) ==
  CASE c = "A" -> "a" [] c = "C" -> "c" [] c = "D" -> "d" [] c = "E" -> "e"
    [] c = "F" -> "f" [] c = "H" -> "h" [] c = "I" -> "i" [] c = "M" -> "m"
    [] c = "N" -> "n" [] c = "O" -> "o" [] c = "S" -> "s" [] c = "T" -> "t"
    [] c = "U" -> "u" [] c = "Z" -> "z"
    [] OTHER -> c

\* str.lower(): character by character.
RECURSIVE Lower(_)
Lower(line) ==
  IF line = "" THEN ""
  ELSE LowerChar(SubSeq(line, 1, 1)) \o Lower(SubSeq(line, 2, Len(line)))

\* str.startswith(marker): the first Len(marker) characters are the marker.
StartsWith(low, marker) ==
  /\ Len(low) >= Len(marker)
  /\ SubSeq(low, 1, Len(marker)) = marker

IsFunction1(line) == StartsWith(Lower(line), "function 1")

\* The end-of-function-lines test of the selected mode.
IsTerminal(line, msms) ==
  IF msms THEN StartsWith(Lower(line), "scanssum")
          ELSE StartsWith(Lower(line), "fastddamsmsscantime")

\* Faulty variant: the function buffer starts empty.
SegStartNoSeed ==
  [header |-> TRUE, footer |-> FALSE, header_lines |-> << >>,
   function_lines |-> << >>, footer_lines |-> << >>]

\* `header_lines, function_lines, footer_lines = [], ['\n'], []`
SegStart ==
  [header |-> TRUE, footer |-> FALSE, header_lines |-> << >>,
   function_lines |-> << BlankLine >>, footer_lines |-> << >>]

\* The `if header / elif footer / else` choice of the buffer.
SegBuffer(header, footer) ==
  IF header THEN "H" ELSE IF footer THEN "F" ELSE "B"

\* Faulty variant: the end-of-block test runs before the line is appended.
SegStepFooterFirst(st, line, msms) ==
  LET h == IF IsFunction1(line) THEN FALSE ELSE st.header
      f == IF IsTerminal(line, msms) THEN TRUE ELSE st.footer
      b == SegBuffer(h, f)
  IN [header |-> h, footer |-> f,
      header_lines |-> IF b = "H" THEN Append(st.header_lines, line)
                       ELSE st.header_lines,
      function_lines |-> IF b = "B" THEN Append(st.function_lines, line)
                         ELSE st.function_lines,
      footer_lines |-> IF b = "F" THEN Append(st.footer_lines, line)
                       ELSE st.footer_lines]

\* One iteration of `for line in list(basefile)`.
SegStep(st, line, msms) ==
  LET h == IF IsFunction1(line) THEN FALSE ELSE st.header
      b == SegBuffer(h, st.footer)
      f == IF IsTerminal(line, msms) THEN TRUE ELSE st.footer
  IN [header |-> h, footer |-> f,
      header_lines |-> IF b = "H" THEN Append(st.header_lines, line)
                       ELSE st.header_lines,
      function_lines |-> IF b = "B" THEN Append(st.function_lines, line)
                         ELSE st.function_lines,
      footer_lines |-> IF b = "F" THEN Append(st.footer_lines, line)
                       ELSE st.footer_lines]

\* The buffer the next line goes to (the record of placements).
SegPlacement(st, line) ==
  SegBuffer(IF IsFunction1(line) THEN FALSE ELSE st.header, st.footer)

InitSeg ==
  /\ base_lines \in SeqsUpTo(TemplateLines, MaxLines)
  /\ msms_bool \in BOOLEAN
  /\ seg_pc = "loop" /\ seg_i = 0
  /\ seg = SegStart
  /\ placed = << >> /\ seg_result = "none"
  /\ IdleSplit /\ IdleFuncs /\ IdleOut

Seg_Line ==
  /\ seg_pc = "loop" /\ seg_i < Len(base_lines)
  /\ seg' = SegStep(seg, base_lines[seg_i + 1], msms_bool)
  /\ placed' = Append(placed, SegPlacement(seg, base_lines[seg_i + 1]))
  /\ seg_i' = seg_i + 1
  /\ UNCHANGED <<base_lines, msms_bool, seg_pc, seg_result, spVars, mfVars, outVars>>

\* `header_lines = header_lines[:-1]; return header_lines, function_lines, footer_lines`
Seg_Return ==
  /\ seg_pc = "loop" /\ seg_i = Len(base_lines)
  /\ seg' = [seg EXCEPT !.header_lines =
               IF @ = << >> THEN << >> ELSE SubSeq(@, 1, Len(@) - 1)]
  /\ seg_result' = "partition"
  /\ seg_pc' = "done"
  /\ UNCHANGED <<base_lines, msms_bool, seg_i, placed, spVars, mfVars, outVars>>

NextSeg == Seg_Line \/ Seg_Return
SpecSeg == InitSeg /\ [][NextSeg]_vars

\* ------------------------------------------- properties of the segmenter
Min(S) == CHOOSE x \in S : \A y \in S : x <= y

\* Positions of the function-1 marker lines of the template.
Function1At == { i \in 1..Len(base_lines) : IsFunction1(base_lines[i]) }

\* Positions of the terminal-marker lines of the selected mode.
TerminalAt == { i \in 1..Len(base_lines) : IsTerminal(base_lines[i], msms_bool) }

\* The template enters BLOCK at its first function-1 line with no terminal
\* marker seen before it.
EntersBlock ==
  /\ Function1At # {}
  /\ \A i \in TerminalAt : i > Min(Function1At)

\* Position of the line that triggers BLOCK -> FOOTER, when there is one.
HasTrigger == EntersBlock /\ TerminalAt # {}
Trigger == Min(TerminalAt)

\* C7: the line that triggers the block-to-footer transition is the last
\* line of the function-block buffer, never a footer line, and the footer
\* is exactly the lines after it.
C7_TriggerEndsBlock ==
  (HasTrigger /\ seg_i >= Trigger) =>
    /\ seg.function_lines =
         << BlankLine >> \o SubSeq(base_lines, Min(Function1At), Trigger)
    /\ seg.function_lines[Len(seg.function_lines)] = base_lines[Trigger]
    /\ seg.footer_lines = SubSeq(base_lines, Trigger + 1, seg_i)

C7_Witness ==
  /\ seg_pc = "done" /\ HasTrigger /\ ~msms_bool
  /\ Min(Function1At) = 3 /\ Trigger = 4 /\ Len(base_lines) = 5
  /\ Len(seg.footer_lines) = 1 /\ Len(seg.function_lines) = 3

\* C8 as stated: the first function-1 line is the first line of the
\* returned function-block buffer and is not part of the returned header.
C8_Function1IsFirstBlockLine ==
  (seg_pc = "done" /\ Function1At # {}) =>
    /\ seg.function_lines[1] = base_lines[Min(Function1At)]
    /\ \A i \in 1..Len(seg.header_lines) : ~IsFunction1(seg.header_lines[i])

\* C8 amended: the first function-1 line is never part of the returned
\* header (the header is the lines before it less the last one); the block
\* buffer always starts with the blank line it is created with, and the
\* function-1 line is the first template line outside the header: the
\* second line of the block buffer, or the first footer line when a
\* terminal marker precedes it.
C8_Function1AfterSeedLine ==
  (seg_pc = "done" /\ Function1At # {}) =>
    LET f == Min(Function1At) IN
    /\ seg.header_lines = SubSeq(base_lines, 1, f - 2)
    /\ seg.function_lines[1] = BlankLine
    /\ IF \A i \in TerminalAt : i > f
       THEN /\ Len(seg.function_lines) >= 2
            /\ seg.function_lines[2] = base_lines[f]
       ELSE /\ seg.function_lines = << BlankLine >>
            /\ seg.footer_lines = SubSeq(base_lines, f, Len(base_lines))

C8_Witness ==
  /\ seg_pc = "done" /\ Function1At = {3} /\ TerminalAt = {5}
  /\ seg.function_lines[2] = "FUNCTION 1" /\ Len(seg.header_lines) = 1

\* C9: the buffers are used in the order HEADER, BLOCK, FOOTER; a footer
\* line is always preceded by a block line, and a function-1 line is never
\* placed in the footer before any line was placed in the block.
C9_HeaderBlockFooterOrder ==
  \A i \in 1..Len(placed) :
    /\ placed[i] = "F" => \E j \in 1..(i - 1) : placed[j] = "B"
    /\ placed[i] = "B" => \A j \in 1..(i - 1) : placed[j] # "F"
    /\ placed[i] = "H" => \A j \in 1..(i - 1) : placed[j] = "H"

\* C10: segmentation fails with MalformedTemplate and returns no partition
\* when the template has no function-1 line or no terminal marker line.
C10_MalformedTemplate ==
  (seg_pc = "done" /\ (Function1At = {} \/ TerminalAt = {})) =>
    seg_result = "MalformedTemplate"

\* ======================================================================
\* gen_function_lines(func, index, basefunc_lines, optic_mode)
\* ======================================================================
MaxBlock == 3

\* Faulty variant: the codes of resolution and high_resolution are swapped.
optics_dict_swapped == [sensitivity |-> 2, resolution |-> 1, high_resolution |-> 0]

\* `optics_dict`
optics_dict == [sensitivity |-> 2, resolution |-> 0, high_resolution |-> 1]

\* '{}'.format(n) of an exact number.
Fmt(n) == ToString(n)

\* Lines of a function block of a base file.
BlockLines ==
  { BlankLine, "FUNCTION 1", "UseOpticMode,1", "FunctionStartTime(min),0",
    "FunctionScanTime(sec),9", "TOFCollisionEnergy,4", "tofcollisionenergy2,4",
    "FixedCollisionEnergy,6", "FixedCollisionEnergy2,10", "ScansSum,1" }

\* Functions handed to the rewriter: one MSMS, one MS.
RewriteFuncs == { Function(msms, 500, 100, 2000, 7, 1, 3, 5) : msms \in BOOLEAN }

optic_modes == { "sensitivity", "resolution", "high_resolution", "fast" }

\* `optics_dict[optic_mode]` raises KeyError on this line.
GenLineRaises(line, optic_mode) ==
  /\ ~StartsWith(Lower(line), "function ")
  /\ StartsWith(Lower(line), "useopticmode")
  /\ optic_mode \notin DOMAIN optics_dict

\* Faulty variant: a line with no recognized prefix is written as blank.
GenLineBlanksOthers(func, index, line, optic_mode) ==
  LET low == Lower(line) IN
  IF StartsWith(low, "function ") THEN "FUNCTION " \o Fmt(index)
  ELSE IF StartsWith(low, "useopticmode")
    THEN "UseOpticMode," \o Fmt(optics_dict[optic_mode])
  ELSE IF StartsWith(low, "functionstarttime")
    THEN "FunctionStartTime(min)," \o Fmt(func.start_time)
  ELSE IF StartsWith(low, "functionendtime")
    THEN "FunctionEndTime(min)," \o Fmt(func.stop_time)
  ELSE IF StartsWith(low, "functionstartmass")
    THEN "FunctionStartMass," \o Fmt(func.ms_start)
  ELSE IF StartsWith(low, "functionendmass")
    THEN "FunctionEndMass," \o Fmt(func.ms_end)
  ELSE IF StartsWith(low, "functionscantime")
    THEN "FunctionScanTime(sec)," \o Fmt(func.scantime)
  ELSE IF StartsWith(low, "tofsetmass") THEN "TOFSetMass," \o Fmt(func.select_mz)
  ELSE IF StartsWith(low, "tofcollisionenergy")
          \/ StartsWith(low, "fixedcollisionenergy")
    THEN IF func.msms_mode
         THEN IF StartsWith(low, "tofcollisionenergy")
              THEN "TOFCollisionEnergy," \o Fmt(func.cv) ELSE line
         ELSE IF StartsWith(low, "fixedcollisionenergy")
                 /\ ~StartsWith(low, "fixedcollisionenergy2")
              THEN "FixedCollisionEnergy," \o Fmt(func.cv) ELSE line
  ELSE BlankLine

\* Faulty variant: in MS mode FixedCollisionEnergy2 is rewritten as well.
GenLineRewritesEnergy2(func, index, line, optic_mode) ==
  LET low == Lower(line) IN
  IF StartsWith(low, "function ") THEN "FUNCTION " \o Fmt(index)
  ELSE IF StartsWith(low, "useopticmode")
    THEN "UseOpticMode," \o Fmt(optics_dict[optic_mode])
  ELSE IF StartsWith(low, "functionstarttime")
    THEN "FunctionStartTime(min)," \o Fmt(func.start_time)
  ELSE IF StartsWith(low, "functionendtime")
    THEN "FunctionEndTime(min)," \o Fmt(func.stop_time)
  ELSE IF StartsWith(low, "functionstartmass")
    THEN "FunctionStartMass," \o Fmt(func.ms_start)
  ELSE IF StartsWith(low, "functionendmass")
    THEN "FunctionEndMass," \o Fmt(func.ms_end)
  ELSE IF StartsWith(low, "functionscantime")
    THEN "FunctionScanTime(sec)," \o Fmt(func.scantime)
  ELSE IF StartsWith(low, "tofsetmass") THEN "TOFSetMass," \o Fmt(func.select_mz)
  ELSE IF StartsWith(low, "tofcollisionenergy")
          \/ StartsWith(low, "fixedcollisionenergy")
    THEN IF func.msms_mode
         THEN IF StartsWith(low, "tofcollisionenergy")
              THEN "TOFCollisionEnergy," \o Fmt(func.cv) ELSE line
         ELSE IF StartsWith(low, "fixedcollisionenergy")
              THEN "FixedCollisionEnergy," \o Fmt(func.cv) ELSE line
  ELSE line

\* The if/elif chain of the loop body: the line written for `line`.
GenLine(func, index, line, optic_mode) ==
  LET low == Lower(line) IN
  IF StartsWith(low, "function ") THEN "FUNCTION " \o Fmt(index)
  ELSE IF StartsWith(low, "useopticmode")
    THEN "UseOpticMode," \o Fmt(optics_dict[optic_mode])
  ELSE IF StartsWith(low, "functionstarttime")
    THEN "FunctionStartTime(min)," \o Fmt(func.start_time)
  ELSE IF StartsWith(low, "functionendtime")
    THEN "FunctionEndTime(min)," \o Fmt(func.stop_time)
  ELSE IF StartsWith(low, "functionstartmass")
    THEN "FunctionStartMass," \o Fmt(func.ms_start)
  ELSE IF StartsWith(low, "functionendmass")
    THEN "FunctionEndMass," \o Fmt(func.ms_end)
  ELSE IF StartsWith(low, "functionscantime")
    THEN "FunctionScanTime(sec)," \o Fmt(func.scantime)
  ELSE IF StartsWith(low, "tofsetmass") THEN "TOFSetMass," \o Fmt(func.select_mz)
  ELSE IF StartsWith(low, "tofcollisionenergy")
          \/ StartsWith(low, "fixedcollisionenergy")
    THEN IF func.msms_mode
         THEN IF StartsWith(low, "tofcollisionenergy")
              THEN "TOFCollisionEnergy," \o Fmt(func.cv) ELSE line
         ELSE IF StartsWith(low, "fixedcollisionenergy")
                 /\ ~StartsWith(low, "fixedcollisionenergy2")
              THEN "FixedCollisionEnergy," \o Fmt(func.cv) ELSE line
  ELSE line

InitRewrite ==
  /\ gf_lines \in SeqsUpTo(BlockLines, MaxBlock)
  /\ gf_func \in RewriteFuncs
  /\ gf_index \in {2}
  /\ gf_optic \in optic_modes
  /\ gf_pc = "loop" /\ gf_i = 0 /\ gf_out = << >>
  /\ IdleSplit /\ IdleFuncs /\ IdleSeg
  /\ IdleAssemble /\ IdleMain /\ disk = << >>

\* One iteration of `for line in basefunc_lines`.
GF_Line ==
  /\ gf_pc = "loop" /\ gf_i < Len(gf_lines)
  /\ ~GenLineRaises(gf_lines[gf_i + 1], gf_optic)
  /\ gf_out' = Append(gf_out, GenLine(gf_func, gf_index, gf_lines[gf_i + 1], gf_optic))
  /\ gf_i' = gf_i + 1
  /\ UNCHANGED <<gf_lines, gf_func, gf_index, gf_optic, gf_pc,
                 spVars, mfVars, segVars, mmVars, mpVars, disk>>

\* The dictionary lookup fails: the call ends with KeyError.
GF_KeyError ==
  /\ gf_pc = "loop" /\ gf_i < Len(gf_lines)
  /\ GenLineRaises(gf_lines[gf_i + 1], gf_optic)
  /\ gf_pc' = "KeyError"
  /\ UNCHANGED <<gf_lines, gf_func, gf_index, gf_optic, gf_i, gf_out,
                 spVars, mfVars, segVars, mmVars, mpVars, disk>>

\* `return output_lines`
GF_Return ==
  /\ gf_pc = "loop" /\ gf_i = Len(gf_lines)
  /\ gf_pc' = "done"
  /\ UNCHANGED <<gf_lines, gf_func, gf_index, gf_optic, gf_i, gf_out,
                 spVars, mfVars, segVars, mmVars, mpVars, disk>>

NextRewrite == GF_Line \/ GF_KeyError \/ GF_Return
SpecRewrite == InitRewrite /\ [][NextRewrite]_vars

\* The field markers the rewriter recognizes.
FieldMarkers ==
  { "function ", "useopticmode", "functionstarttime", "functionendtime",
    "functionstartmass", "functionendmass", "functionscantime", "tofsetmass",
    "tofcollisionenergy", "fixedcollisionenergy" }

Recognized(line) == \E m \in FieldMarkers : StartsWith(Lower(line), m)

\* C11: the rewriter returns as many lines as the template block, in the
\* same order, and a line with no recognized marker is unchanged in place.
C11_LengthAndPassThrough ==
  /\ gf_pc \in {"loop", "done"} => Len(gf_out) = gf_i
  /\ gf_pc = "done" =>
       /\ Len(gf_out) = Len(gf_lines)
       /\ \A i \in 1..Len(gf_lines) :
            ~Recognized(gf_lines[i]) => gf_out[i] = gf_lines[i]

C11_Witness ==
  /\ gf_pc = "done" /\ Len(gf_lines) = 3
  /\ gf_lines[1] = "FUNCTION 1" /\ gf_out[1] = "FUNCTION 2"
  /\ gf_lines[2] = "ScansSum,1" /\ gf_out[2] = "ScansSum,1"
  /\ gf_lines[3] = "FunctionStartTime(min),0"

\* C12: the collision voltage goes only to the variant of the record's
\* mode: MSMS rewrites TOFCollisionEnergy lines and keeps FixedCollision-
\* Energy... lines; MS rewrites FixedCollisionEnergy (not ...Energy2) and
\* keeps TOFCollisionEnergy lines.
C12_EnergyVariant ==
  gf_pc = "done" =>
    \A i \in 1..Len(gf_lines) :
      LET low == Lower(gf_lines[i]) IN
      /\ StartsWith(low, "tofcollisionenergy") =>
           gf_out[i] = IF gf_func.msms_mode
                       THEN "TOFCollisionEnergy," \o ToString(gf_func.cv)
                       ELSE gf_lines[i]
      /\ StartsWith(low, "fixedcollisionenergy") =>
           gf_out[i] = IF ~gf_func.msms_mode
                          /\ ~StartsWith(low, "fixedcollisionenergy2")
                       THEN "FixedCollisionEnergy," \o ToString(gf_func.cv)
                       ELSE gf_lines[i]

C12_Witness ==
  /\ gf_pc = "done" /\ ~gf_func.msms_mode /\ Len(gf_lines) = 3
  /\ gf_lines[1] = "TOFCollisionEnergy,4" /\ gf_out[1] = "TOFCollisionEnergy,4"
  /\ gf_lines[2] = "FixedCollisionEnergy,6" /\ gf_out[2] = "FixedCollisionEnergy,7"
  /\ gf_lines[3] = "FixedCollisionEnergy2,10"
  /\ gf_out[3] = "FixedCollisionEnergy2,10"

\* ======================================================================
\* Whole-call forms of the loops above (used where the caller sees only
\* the returned value).
\* ======================================================================
RECURSIVE RampLoop(_, _, _, _)
RampLoop(p, fs, t, v) ==
  IF RampContinues(v, p)
  THEN RampLoop(p, Append(fs, RampFunc(p, t, v)),
                t + p.collect_time, v + p.cv_step)
  ELSE [funcs |-> fs, current_time |-> t]

RECURSIVE MakeFuncsLoop(_, _, _, _)
MakeFuncsLoop(ps, j, fs, t) ==
  IF j > Len(ps) THEN fs
  ELSE LET p == ps[j]
           d == p.delay_time_init > 0
           r == RampLoop(p,
                         IF d THEN Append(fs, DelayFunc(p, t)) ELSE fs,
                         IF d THEN ClockAfterDelay(t, p) ELSE t,
                         p.cv_start)
       IN MakeFuncsLoop(ps, j + 1, r.funcs, r.current_time)

\* make_funcs(param_obj_list), for analyses whose ramp ends (cv_step > 0).
make_funcs(ps) == MakeFuncsLoop(ps, 1, << >>, 0)

RECURSIVE SplitLoop(_, _, _)
SplitLoop(st, fs, n) ==
  IF fs = << >> THEN Append(st.output_lists, st.current_output_list)
  ELSE SplitLoop(SplitStep(st, Head(fs), n), Tail(fs), n)

\* split_to_multiple_files(func_list, num_funcs_per_file)
split_to_multiple_files(fs, n) ==
  SplitLoop([func_counter |-> 1, output_lists |-> << >>,
             current_output_list |-> << >>], fs, n)

RECURSIVE SegLoop(_, _, _)
SegLoop(st, lines, msms) ==
  IF lines = << >> THEN st
  ELSE SegLoop(SegStep(st, Head(lines), msms), Tail(lines), msms)

\* get_basefile_lines(param_obj): header (less its last line), block, footer.
get_basefile_lines(lines, msms) ==
  LET st == SegLoop(SegStart, lines, msms) IN
  [header |-> IF st.header_lines = << >> THEN << >>
              ELSE SubSeq(st.header_lines, 1, Len(st.header_lines) - 1),
   func_lines |-> st.function_lines,
   footer |-> st.footer_lines]

\* gen_function_lines raises KeyError for this block.
GenFunctionLinesRaises(block, optic_mode) ==
  \E i \in 1..Len(block) : GenLineRaises(block[i], optic_mode)

\* gen_function_lines(func, index, basefunc_lines, optic_mode)
gen_function_lines(func, index, block, optic_mode) ==
  [ i \in 1..Len(block) |-> GenLine(func, index, block[i], optic_mode) ]

\* ======================================================================
\* make_method_file(function_list, param_obj)
\* ======================================================================
\* The remaining fields of Parameters.MethodParams.
FullParams(p, optic, per_file) ==
  p @@ [optic_mode |-> optic, functions_per_file |-> per_file,
        sample_name |-> "S", date |-> "D", cal_file |-> "cal",
        tune_file |-> "tune"]

\* `cv_range = '{}-{}'.format(function_list[0].cv, function_list[-1].cv)`
CvRange(function_list) ==
  Fmt(function_list[1].cv) \o "-" \o Fmt(function_list[Len(function_list)].cv)

\* The .exp file name for a given voltage-range text.
ExpName(p, cv_range) ==
  p.sample_name \o "_" \o Fmt(p.mz) \o "_" \o SubSeq(p.optic_mode, 1, 1)
    \o "_" \o Fmt(p.cv_step) \o "V_" \o Fmt(p.collect_time) \o "min_"
    \o cv_range \o (IF p.combine_all_bool THEN "V_COMBINED.exp" ELSE "V.exp")

\* get_func_types(list_of_funcs)
RECURSIVE FuncTypesLoop(_, _)
FuncTypesLoop(out, fs) ==
  IF fs = << >> THEN out
  ELSE FuncTypesLoop(out \o (IF Head(fs).msms_mode THEN ",Tof MSMS"
                             ELSE ",Tof MS"), Tail(fs))

get_func_types(list_of_funcs) == FuncTypesLoop("FunctionTypes", list_of_funcs)

\* `optics_dict[param_obj.optic_mode]` raises KeyError on this header line.
HeaderLineRaises(line, p) ==
  /\ ~StartsWith(Lower(line), "experimentduration")
  /\ ~StartsWith(Lower(line), "experimentcalibrationfilename")
  /\ StartsWith(Lower(line), "opticmode")
  /\ p.optic_mode \notin DOMAIN optics_dict

\* The if/elif chain of the header loop.
HeaderLine(line, function_list, p) ==
  LET low == Lower(line) IN
  IF StartsWith(low, "experimentduration")
    THEN "ExperimentDuration,"
           \o Fmt(function_list[Len(function_list)].stop_time)
  ELSE IF StartsWith(low, "experimentcalibrationfilename")
    THEN "ExperimentCalibrationFilename," \o p.cal_file \o ",Enabled"
  ELSE IF StartsWith(low, "opticmode")
    THEN "OpticMode," \o Fmt(optics_dict[p.optic_mode])
  ELSE IF StartsWith(low, "numberoffunctions")
    THEN "NumberOfFunctions," \o Fmt(Len(function_list))
  ELSE IF StartsWith(low, "functiontypes") THEN get_func_types(function_list)
  ELSE line

\* Faulty variant: the block of the k-th function carries index k - 1.
BlockForZeroBased(function_list, k, block, optic_mode) ==
  gen_function_lines(function_list[k], k - 1, block, optic_mode)

\* `gen_function_lines(func, index + 1, func_lines, param_obj.optic_mode)`
\* for the k-th function (k = index + 1).
BlockFor(function_list, k, block, optic_mode) ==
  gen_function_lines(function_list[k], k, block, optic_mode)

\* open(path, 'w') and write: the file is created or replaced.
WriteFile(d, name, lines) ==
  [ n \in (DOMAIN d) \cup {name} |-> IF n = name THEN lines ELSE d[n] ]

\* Base files: a header with or without the optics line, a separator blank
\* line, one function block with or without UseOpticMode, a footer.
BaseHeaders ==
  { << "ExperimentDuration,9", "ExperimentCalibrationFilename,x,Enabled",
       "OpticMode,1", "NumberOfFunctions,1", "FunctionTypes,Tof MS" >>,
    << "ExperimentDuration,9", "NumberOfFunctions,1", "FunctionTypes,Tof MS" >>,
    << "Title" >> }
BaseBlocks ==
  { << "FUNCTION 1", "UseOpticMode,1", "FunctionStartTime(min),0",
       "FunctionEndTime(min),9", "TOFCollisionEnergy,4",
       "FixedCollisionEnergy,6", "FastDDAMSMSScanTime,1", "ScansSum,1" >>,
    << "FUNCTION 1", "FunctionStartTime(min),0", "TOFCollisionEnergy,4",
       "FastDDAMSMSScanTime,1", "ScansSum,1" >> }
BaseFooters == { << "End" >>, << "FunctionEnd", "End" >> }
BaseFiles ==
  { h \o << BlankLine >> \o b \o f :
      h \in BaseHeaders, b \in BaseBlocks, f \in BaseFooters }

\* The analyses of one method file: MS or MSMS, one or two ramp steps.
AssembleSpecs(combine, optic) ==
  { FullParams(MethodParams(combine, msms, 0, v1, 1, 1, 0), optic, 30) :
      msms \in BOOLEAN, v1 \in 0..1 }

\* The calls main_method_prep makes: one analysis (standard mode), or all
\* analyses of a combined method with the first analysis' parameters.
InitAssemble ==
  /\ \E combine \in BOOLEAN, optic \in optic_modes :
       \E ps \in UNION { [1..n -> AssembleSpecs(combine, optic)] :
                           n \in IF combine THEN 2..MaxSpecs ELSE 1..1 } :
         /\ mm_funcs = make_funcs(ps)
         /\ mm_param = ps[1]
  /\ mm_base \in BaseFiles
  /\ mm_pc = "name" /\ mm_k = 0 /\ mm_parts = << >> /\ mm_out = << >>
  /\ mm_name = ""
  /\ disk = << >>
  /\ IdleSplit /\ IdleFuncs /\ IdleSeg /\ IdleRewrite /\ IdleMain

\* File name and `get_basefile_lines(param_obj)`.
MM_Name ==
  /\ mm_pc = "name"
  /\ mm_name' = ExpName(mm_param, CvRange(mm_funcs))
  /\ mm_parts' = get_basefile_lines(mm_base, mm_param.msms_bool)
  /\ mm_pc' = "header"
  /\ UNCHANGED <<mm_funcs, mm_param, mm_base, mm_k, mm_out,
                 spVars, mfVars, segVars, gfVars, mpVars, disk>>

\* The header loop.
MM_Header ==
  /\ mm_pc = "header"
  /\ IF \E i \in 1..Len(mm_parts.header) :
          HeaderLineRaises(mm_parts.header[i], mm_param)
     THEN mm_pc' = "KeyError" /\ UNCHANGED mm_out
     ELSE /\ mm_out' = [ i \in 1..Len(mm_parts.header) |->
                           HeaderLine(mm_parts.header[i], mm_funcs, mm_param) ]
          /\ mm_pc' = "functions"
  /\ UNCHANGED <<mm_funcs, mm_param, mm_base, mm_k, mm_parts, mm_name,
                 spVars, mfVars, segVars, gfVars, mpVars, disk>>

\* One iteration of `for index, func in enumerate(function_list)`.
MM_Function ==
  /\ mm_pc = "functions" /\ mm_k < Len(mm_funcs)
  /\ IF GenFunctionLinesRaises(mm_parts.func_lines, mm_param.optic_mode)
     THEN mm_pc' = "KeyError" /\ UNCHANGED <<mm_out, mm_k>>
     ELSE /\ mm_out' = mm_out \o BlockFor(mm_funcs, mm_k + 1, mm_parts.func_lines,
                                         mm_param.optic_mode)
          /\ mm_k' = mm_k + 1
          /\ UNCHANGED mm_pc
  /\ UNCHANGED <<mm_funcs, mm_param, mm_base, mm_parts, mm_name,
                 spVars, mfVars, segVars, gfVars, mpVars, disk>>

\* `output_lines.extend(footer)`, write the file, return its name.
MM_Write ==
  /\ mm_pc = "functions" /\ mm_k = Len(mm_funcs)
  /\ mm_out' = mm_out \o mm_parts.footer
  /\ disk' = WriteFile(disk, mm_name, mm_out \o mm_parts.footer)
  /\ mm_pc' = "done"
  /\ UNCHANGED <<mm_funcs, mm_param, mm_base, mm_k, mm_parts, mm_name,
                 spVars, mfVars, segVars, gfVars, mpVars>>

NextAssemble == MM_Name \/ MM_Header \/ MM_Function \/ MM_Write
SpecAssemble == InitAssemble /\ [][NextAssemble]_vars

\* ------------------------------------------ properties of make_method_file
KnownOptics == { "sensitivity", "resolution", "high_resolution" }

ExpectedOpticCode(mode) ==
  CASE mode = "sensitivity" -> 2
    [] mode = "resolution" -> 0
    [] mode = "high_resolution" -> 1

\* The base file has a line whose rewriting looks the optics mode up.
HasOpticLine ==
  \/ \E i \in 1..Len(mm_parts.header) :
       StartsWith(Lower(mm_parts.header[i]), "opticmode")
  \/ \E i \in 1..Len(mm_parts.func_lines) :
       StartsWith(Lower(mm_parts.func_lines[i]), "useopticmode")

\* C13 as stated: with an unknown optics mode no document is assembled and
\* no file is written, whatever the template.
C13_UnknownModeNeverWrites ==
  mm_param.optic_mode \notin KnownOptics => (mm_pc # "done" /\ disk = << >>)

\* C13 amended: with an unknown optics mode the call fails (KeyError) with
\* no file written exactly when the template has an OpticMode header line
\* or a UseOpticMode block line; a known mode never fails and is written
\* as sensitivity=2, resolution=0, high_resolution=1.
C13_UnknownModeFailsOnLookup ==
  /\ mm_pc = "KeyError" =>
       /\ mm_param.optic_mode \notin KnownOptics /\ HasOpticLine
       /\ disk = << >>
  /\ (mm_pc \in {"functions", "done"} /\ mm_k >= 1
        /\ mm_param.optic_mode \notin KnownOptics) => ~HasOpticLine
  /\ mm_pc = "done" =>
       /\ \A i \in 1..Len(mm_parts.header) :
            StartsWith(Lower(mm_parts.header[i]), "opticmode") =>
              disk[mm_name][i]
                = "OpticMode," \o ToString(ExpectedOpticCode(mm_param.optic_mode))
       /\ \A i \in 1..Len(mm_parts.func_lines) :
            StartsWith(Lower(mm_parts.func_lines[i]), "useopticmode") =>
              disk[mm_name][Len(mm_parts.header) + i]
                = "UseOpticMode," \o ToString(ExpectedOpticCode(mm_param.optic_mode))

C13_Witness ==
  /\ mm_pc = "KeyError" /\ mm_param.optic_mode = "fast"
  /\ mm_out # << >> /\ disk = << >>

RECURSIVE TypeLabels(_)
TypeLabels(fs) ==
  IF fs = << >> THEN ""
  ELSE (IF Head(fs).msms_mode THEN ",Tof MSMS" ELSE ",Tof MS")
         \o TypeLabels(Tail(fs))

\* C14: the document is the rewritten header, then one rewritten block per
\* record in record order with function-index lines 1..n, then the footer
\* unmodified; NumberOfFunctions is n, FunctionTypes lists the n labels in
\* record order and ExperimentDuration is the last record's stop time.
C14_DocumentLayout ==
  mm_pc = "done" =>
    LET doc == disk[mm_name]
        n == Len(mm_funcs)
        H == mm_parts.header
        B == mm_parts.func_lines
        F == mm_parts.footer
    IN /\ n >= 1
       /\ Len(doc) = Len(H) + n * Len(B) + Len(F)
       /\ SubSeq(doc, Len(H) + n * Len(B) + 1, Len(doc)) = F
       /\ F = SubSeq(mm_base, Len(mm_base) - Len(F) + 1, Len(mm_base))
       /\ \A k \in 1..n : \A i \in 1..Len(B) :
            LET out == doc[Len(H) + (k - 1) * Len(B) + i] IN
            /\ StartsWith(Lower(B[i]), "function ") =>
                 out = "FUNCTION " \o ToString(k)
            /\ StartsWith(Lower(B[i]), "functionstarttime") =>
                 out = "FunctionStartTime(min)," \o ToString(mm_funcs[k].start_time)
            /\ ~Recognized(B[i]) => out = B[i]
       /\ \A i \in 1..Len(H) :
            /\ StartsWith(Lower(H[i]), "numberoffunctions") =>
                 doc[i] = "NumberOfFunctions," \o ToString(n)
            /\ StartsWith(Lower(H[i]), "functiontypes") =>
                 doc[i] = "FunctionTypes" \o TypeLabels(mm_funcs)
            /\ StartsWith(Lower(H[i]), "experimentduration") =>
                 doc[i] = "ExperimentDuration," \o ToString(mm_funcs[n].stop_time)

C14_Witness ==
  /\ mm_pc = "done" /\ Len(mm_funcs) = 3 /\ mm_param.combine_all_bool
  /\ mm_funcs[1].msms_mode /\ ~mm_funcs[3].msms_mode
  /\ Len(mm_parts.header) = 5 /\ Len(mm_parts.func_lines) >= 6
  /\ disk[mm_name][4] = "NumberOfFunctions,3"
  /\ disk[mm_name][5] = "FunctionTypes,Tof MSMS,Tof MSMS,Tof MS"

MinCv(fs) == CHOOSE v \in { fs[i].cv : i \in 1..Len(fs) } :
               \A i \in 1..Len(fs) : v <= fs[i].cv
MaxCv(fs) == CHOOSE v \in { fs[i].cv : i \in 1..Len(fs) } :
               \A i \in 1..Len(fs) : v >= fs[i].cv

\* C15: the voltage-range field of the file name is the minimum and the
\* maximum collision voltage over the records of the document, in standard
\* and in combined mode.
C15_NameHasMinMaxVoltage ==
  mm_pc \notin {"idle", "name"} =>
    mm_name = ExpName(mm_param,
                      ToString(MinCv(mm_funcs)) \o "-" \o ToString(MaxCv(mm_funcs)))

\* ======================================================================
\* main_method_prep(param_obj_list)
\* ======================================================================
\* `if len(funcs) >= 30`: the function limit of the instrument software.
PlatformLimit == 30

\* make_method_file raises KeyError.
MakeMethodFileRaises(function_list, p, base) ==
  LET parts == get_basefile_lines(base, p.msms_bool) IN
  \/ \E i \in 1..Len(parts.header) : HeaderLineRaises(parts.header[i], p)
  \/ GenFunctionLinesRaises(parts.func_lines, p.optic_mode)

RECURSIVE FunctionBlocks(_, _, _, _)
FunctionBlocks(function_list, k, block, optic_mode) ==
  IF k > Len(function_list) THEN << >>
  ELSE BlockFor(function_list, k, block, optic_mode)
         \o FunctionBlocks(function_list, k + 1, block, optic_mode)

\* The lines make_method_file writes.
MethodFileLines(function_list, p, base) ==
  LET parts == get_basefile_lines(base, p.msms_bool) IN
  [ i \in 1..Len(parts.header) |-> HeaderLine(parts.header[i], function_list, p) ]
    \o FunctionBlocks(function_list, 1, parts.func_lines, p.optic_mode)
    \o parts.footer

\* make_sample_list_component(param_obj, exp_filename, func_list, current_index)
make_sample_list_component(p, exp_filename, funcs_in_file, current_index) ==
  LET cv_range == CvRange(funcs_in_file) \o "V"
      file_text == IF p.combine_all_bool THEN "combined" ELSE cv_range
      filename == p.date \o "_" \o p.sample_name \o "_"
                    \o Fmt(funcs_in_file[1].select_mz) \o "_" \o cv_range
  IN Fmt(current_index) \o "," \o filename \o "," \o file_text \o ","
       \o exp_filename \o "," \o p.tune_file

SampleListHeader == "Index,FILE_NAME,FILE_TEXT,MS_FILE,MS_TUNE_FILE"

\* The base file of the run: header, separator, a two-line block, footer.
MainBaseFile ==
  << "NumberOfFunctions,1", BlankLine, "FUNCTION 1", "ScansSum,1", "End" >>

\* Analyses of a run (validated parameters: a known optics mode, step > 0,
\* functions_per_file >= 1): 1 or MaxV+1 ramp steps, or a ramp at the limit.
MainSpecs(combine) ==
  { FullParams(MethodParams(combine, TRUE, 0, v1, 1, 1, delay),
               "sensitivity", per_file) :
      v1 \in {0, MaxV, PlatformLimit - 1, PlatformLimit},
      delay \in {0, MaxDelay},
      per_file \in {1, PlatformLimit} }

InitMain ==
  /\ \E combine \in BOOLEAN :
       mp_params \in { ps \in UNION { [1..n -> MainSpecs(combine)] : n \in 1..MaxSpecs } :
                         \A j \in 1..Len(ps) :
                           ps[j].cv_end > MaxV => ps[j].functions_per_file > 1 }
  /\ mp_base = MainBaseFile
  /\ mp_pc = "start" /\ mp_i = 0 /\ mp_groups = << >> /\ mp_g = 0
  /\ sample_index = 1 /\ sample_list_strings = << >>
  /\ mp_written = << >> /\ sample_list = << >>
  /\ disk = << >>
  /\ IdleSplit /\ IdleFuncs /\ IdleSeg /\ IdleRewrite /\ IdleAssemble

\* The record of one make_method_file call: what was written, for which analysis.
Written(function_list, p, analysis) ==
  [name |-> ExpName(p, CvRange(function_list)),
   funcs |-> function_list, analysis |-> analysis]

\* Combined mode: one method of all analyses, one sample list line.
MP_Combined ==
  /\ mp_pc = "start" /\ mp_params[1].combine_all_bool
  /\ LET fl == make_funcs(mp_params)
         p == mp_params[1]
         name == ExpName(p, CvRange(fl))
     IN /\ disk' = WriteFile(disk, name, MethodFileLines(fl, p, mp_base))
        /\ mp_written' = Append(mp_written, Written(fl, p, 1))
        /\ sample_list_strings' = << make_sample_list_component(p, name, fl, 1) >>
  /\ mp_pc' = "list"
  /\ UNCHANGED <<mp_params, mp_base, mp_i, mp_groups, mp_g, sample_index,
                 sample_list, spVars, mfVars, segVars, gfVars, mmVars>>

\* Standard mode, `len(funcs) > param_obj.functions_per_file`: split.
MP_Split ==
  /\ mp_pc = "start" /\ ~mp_params[1].combine_all_bool
  /\ mp_i < Len(mp_params)
  /\ LET p == mp_params[mp_i + 1]
         fl == make_funcs(<< p >>)
     IN /\ Len(fl) > p.functions_per_file
        /\ mp_groups' = split_to_multiple_files(fl, p.functions_per_file)
  /\ mp_i' = mp_i + 1 /\ mp_g' = 0
  /\ mp_pc' = "groups"
  /\ UNCHANGED <<mp_params, mp_base, sample_index, sample_list_strings,
                 mp_written, sample_list, disk,
                 spVars, mfVars, segVars, gfVars, mmVars>>

\* One iteration of `for func_list in multiple_methods`.
MP_Group ==
  /\ mp_pc = "groups" /\ mp_g < Len(mp_groups)
  /\ LET fl == mp_groups[mp_g + 1]
         p == mp_params[mp_i]
         name == ExpName(p, CvRange(fl))
     IN /\ disk' = WriteFile(disk, name, MethodFileLines(fl, p, mp_base))
        /\ mp_written' = Append(mp_written, Written(fl, p, mp_i))
        /\ sample_list_strings' =
             Append(sample_list_strings,
                    make_sample_list_component(p, name, fl, sample_index))
  /\ sample_index' = sample_index + 1
  /\ mp_g' = mp_g + 1
  /\ mp_pc' = IF mp_g + 1 = Len(mp_groups) THEN "start" ELSE "groups"
  /\ UNCHANGED <<mp_params, mp_base, mp_i, mp_groups, sample_list,
                 spVars, mfVars, segVars, gfVars, mmVars>>

\* Faulty variant: a skipped analysis still takes a sample list index.
MP_SkipTakesIndex ==
  /\ mp_pc = "start" /\ ~mp_params[1].combine_all_bool
  /\ mp_i < Len(mp_params)
  /\ LET p == mp_params[mp_i + 1]
         fl == make_funcs(<< p >>)
     IN /\ ~(Len(fl) > p.functions_per_file)
        /\ Len(fl) >= PlatformLimit
  /\ mp_i' = mp_i + 1
  /\ sample_index' = sample_index + 1
  /\ UNCHANGED <<mp_params, mp_base, mp_pc, mp_groups, mp_g,
                 sample_list_strings, mp_written, sample_list, disk,
                 spVars, mfVars, segVars, gfVars, mmVars>>

\* No split and `len(funcs) >= 30`: error dialog, `continue`.
MP_Skip ==
  /\ mp_pc = "start" /\ ~mp_params[1].combine_all_bool
  /\ mp_i < Len(mp_params)
  /\ LET p == mp_params[mp_i + 1]
         fl == make_funcs(<< p >>)
     IN /\ ~(Len(fl) > p.functions_per_file)
        /\ Len(fl) >= PlatformLimit
  /\ mp_i' = mp_i + 1
  /\ UNCHANGED <<mp_params, mp_base, mp_pc, mp_groups, mp_g, sample_index,
                 sample_list_strings, mp_written, sample_list, disk,
                 spVars, mfVars, segVars, gfVars, mmVars>>

\* No split and fewer than 30 functions: one method file.
MP_Single ==
  /\ mp_pc = "start" /\ ~mp_params[1].combine_all_bool
  /\ mp_i < Len(mp_params)
  /\ LET p == mp_params[mp_i + 1]
         fl == make_funcs(<< p >>)
         name == ExpName(p, CvRange(fl))
     IN /\ ~(Len(fl) > p.functions_per_file)
        /\ ~(Len(fl) >= PlatformLimit)
        /\ disk' = WriteFile(disk, name, MethodFileLines(fl, p, mp_base))
        /\ mp_written' = Append(mp_written, Written(fl, p, mp_i + 1))
        /\ sample_list_strings' =
             Append(sample_list_strings,
                    make_sample_list_component(p, name, fl, sample_index))
  /\ sample_index' = sample_index + 1
  /\ mp_i' = mp_i + 1
  /\ UNCHANGED <<mp_params, mp_base, mp_pc, mp_groups, mp_g, sample_list,
                 spVars, mfVars, segVars, gfVars, mmVars>>

\* make_final_sample_list(sample_list_strings, param_obj_list[0])
MP_SampleList ==
  /\ \/ mp_pc = "list"
     \/ /\ mp_pc = "start" /\ ~mp_params[1].combine_all_bool
        /\ mp_i = Len(mp_params)
  /\ sample_list' = << SampleListHeader >> \o sample_list_strings
  /\ mp_pc' = "done"
  /\ UNCHANGED <<mp_params, mp_base, mp_i, mp_groups, mp_g, sample_index,
                 sample_list_strings, mp_written, disk,
                 spVars, mfVars, segVars, gfVars, mmVars>>

NextMain ==
  MP_Combined \/ MP_Split \/ MP_Group \/ MP_Skip \/ MP_Single \/ MP_SampleList
SpecMain == InitMain /\ [][NextMain]_vars

\* ----------------------------------------------------------------------
\* Properties of main_method_prep
\* ----------------------------------------------------------------------
FilesOf(analysis) ==
  { k \in 1..Len(mp_written) : mp_written[k].analysis = analysis }

\* C16: an analysis with an initial delay is never handed to the splitter
\* and is written as exactly one file, whatever its number of functions.
C16_DelayNeverSplit ==
  \A a \in 1..Len(mp_params) :
    mp_params[a].delay_time_init > 0 =>
      /\ ~(mp_pc = "groups" /\ mp_i = a)
      /\ Cardinality(FilesOf(a)) <= 1

Contains(text, part) ==
  \E i \in 1..(Len(text) - Len(part) + 1) :
    SubSeq(text, i, i + Len(part) - 1) = part

\* C17: the finished sample list is the header line followed by one row
\* per method file written, in writing order, with indices 1, 2, ..., k.
C17_SampleListRows ==
  mp_pc = "done" =>
    /\ Len(sample_list) = 1 + Len(mp_written)
    /\ sample_list[1] = SampleListHeader
    /\ \A k \in 1..Len(mp_written) :
         /\ StartsWith(sample_list[k + 1], Fmt(k) \o ",")
         /\ Contains(sample_list[k + 1], "," \o mp_written[k].name \o ",")

\* A run with a skipped analysis, then an analysis split into several files.
C17_Witness ==
  /\ mp_pc = "done" /\ ~mp_params[1].combine_all_bool
  /\ Len(mp_params) >= 2
  /\ \E a \in 1..(Len(mp_params) - 1) :
       /\ FilesOf(a) = {}
       /\ Cardinality(FilesOf(a + 1)) >= 2
  /\ Len(sample_list) >= 3

StartBeforeStop(fs) == \A i \in 1..Len(fs) : fs[i].start_time < fs[i].stop_time

\* C18 as stated: for a valid sweep, with no constraint on collect_time,
\* every Function has start_time < stop_time.
C18_StartBeforeStopUnconstrained ==
  (Len(param_obj_list) = 1 /\ ValidSweep(param_obj_list[1])) =>
    StartBeforeStop(funcs)

\* C18 (amended): for a valid sweep with collect_time > 0 every Function
\* has start_time < stop_time.
C18_StartBeforeStopWhenCollecting ==
  (Len(param_obj_list) = 1 /\ ValidSweep(param_obj_list[1])
     /\ param_obj_list[1].collect_time > 0) =>
    StartBeforeStop(funcs)

C18_Witness ==
  /\ mf_pc = "done" /\ Len(param_obj_list) = 1 /\ ValidSweep(param_obj_list[1])
  /\ param_obj_list[1].collect_time > 0
  /\ param_obj_list[1].delay_time_init > 0
  /\ Len(funcs) >= 3
  /\ StartBeforeStop(funcs)

\* The number of function blocks of a written method file.
FunctionsIn(lines) ==
  Cardinality({ i \in 1..Len(lines) : StartsWith(lines[i], "FUNCTION ") })

\* C19: no method file on disk holds more than 30 functions.
C19_FilesWithinPlatformLimit ==
  \A name \in DOMAIN disk : FunctionsIn(disk[name]) <= PlatformLimit

\* C20: the files written for the groups of one split analysis have
\* pairwise distinct names.
C20_GroupNamesDistinct ==
  ~mp_params[1].combine_all_bool =>
    \A a \in 1..Len(mp_params) :
      \A j, k \in FilesOf(a) :
        j # k => mp_written[j].name # mp_written[k].name

====
